---- MODULE Spec2Model ----
(***************************************************************************)
(* Verification model of digraphx-rs: the negative-cycle finder            *)
(* (src/src/neg_cycle.rs), the parametric ratio solver                     *)
(* (src/src/parametric.rs) and the Bellman-Ford routines (src/src/lib.rs). *)
(*                                                                         *)
(* A graph is a node count n (nodes are the dense indices 0..n-1) and a    *)
(* sequence of edges grouped by source node in index order: the order in   *)
(* which `for utx in node_identifiers() { for edge in edges(utx) ... }`    *)
(* meets them.  An EdgeReference is the position of the edge in that       *)
(* sequence.                                                               *)
(***************************************************************************)
EXTENDS Integers, Sequences, FiniteSets, TLC

\* ---------------------------------------------------------------- bounds
\* Largest number of edges of an input graph.
MaxEdges == 3
\* Largest node count of the graphs whose predecessor maps find_cycle scans.
MaxScanNodes == 4
\* Node counts of the input graphs.
NodeCounts == {1, 2, 3}
\* Edge weights of the input graphs.
Weights == {-1, 0, 1}
\* The caller's initial dist slices handed to howard: all zero, or one
\* entry raised.
InitDists(k) ==
    {[v \in 0 .. (k - 1) |-> IF v = u THEN <<1, 1>> ELSE <<0, 1>>] : u \in -1 .. (k - 1)}
\* The caller's initial ratios handed to MaxParametricSolver::run.
InitRatios == {<<1, 2>>, <<2, 1>>}
\* How far from the ratio run returned the candidate ratios lie that the
\* caller then tries.
ProbeOffsets == {<<-1, 12>>, <<1, 12>>}
\* The caller's initial dist slices handed to MaxParametricSolver::run: all
\* zero, or the first entry raised.
RunInitDists(k) == {d \in InitDists(k) : \A v \in 1 .. (k - 1) : d[v] = <<0, 1>>}

VARIABLES
    n,          \* node_count of the borrowed graph
    edges,      \* the graph's edges, in iteration order
    dist,       \* the caller's dist slice (NegCycleFinder, MaxParametricSolver)
    pred,       \* NegCycleFinder.pred : HashMap<NodeIndex, (NodeIndex, EdgeReference)>
    pc,         \* position of the running call
    result,     \* value returned by the call
    source,     \* bellman_ford / find_negative_cycle: the source node
    distance,   \* bellman_ford_initialize_relax: Vec<EdgeWeight>
    predecessor,\* bellman_ford_initialize_relax: Vec<Option<NodeId>>
    round,      \* bellman_ford_initialize_relax: the `for _ in 1..node_count` counter
    ratio,      \* MaxParametricSolver::run: the caller's *ratio
    run_cycle,  \* MaxParametricSolver::run: the local `cycle`
    r0,         \* the value of *ratio when run was called
    run_pc,     \* position of MaxParametricSolver::run; "none" when no run is active
    iters,      \* MaxParametricSolver::run: iterations of `loop` begun so far
    routine,    \* the entry point the caller calls
    dist0,      \* the values howard's caller resets dist to before a call
    first       \* what the caller's first call returned, once it calls again

vars == <<n, edges, dist, pred, pc, result, source, distance, predecessor, round,
          ratio, run_cycle, r0, run_pc, iters, routine, dist0, first>>

\* What the Bellman-Ford routines own; untouched by NegCycleFinder.
bf_vars == <<source, distance, predecessor, round>>

\* What NegCycleFinder and its caller own; untouched by the Bellman-Ford routines.
ncf_vars == <<dist, pred>>

\* What MaxParametricSolver::run and its caller own.
run_vars == <<ratio, run_cycle, r0, run_pc, iters>>

\* What the caller keeps across calls.
caller_vars == <<routine, dist0, first>>

Nodes == 0 .. (n - 1)

\* Option<NodeIndex>::None
None == -1

\* -------------------------------------------------- Domain = Ratio<i32>
\* A Domain value is a reduced fraction <<numerator, denominator>> with a
\* positive denominator, as num::rational::Ratio keeps it.
RECURSIVE GCD(_, _)
GCD(a, b) == IF b = 0 THEN a ELSE GCD(b, a % b)

Abs(x) == IF x < 0 THEN -x ELSE x

Reduce(p, q) ==
    LET g == GCD(Abs(p), Abs(q))
        s == IF q < 0 THEN -1 ELSE 1
    IN  <<(s * p) \div g, (s * q) \div g>>

FromInteger(k) == <<k, 1>>

Zero == FromInteger(0)

Add(a, b) == Reduce(a[1] * b[2] + b[1] * a[2], a[2] * b[2])

Sub(a, b) == Reduce(a[1] * b[2] - b[1] * a[2], a[2] * b[2])

Div(a, b) == Reduce(a[1] * b[2], a[2] * b[1])

Gt(a, b) == a[1] * b[2] > b[1] * a[2]

\* ------------------------------------------------------------ the graph
EdgeSet(k) == [src : 0 .. (k - 1), dst : 0 .. (k - 1), w : Weights]

\* Edges come grouped by source, sources in node-index order.
IsGrouped(s) == \A i \in 1 .. (Len(s) - 1) : s[i].src <= s[i + 1].src

\* *e.weight()
weight(e) == FromInteger(edges[e].w)

\* A policy that adds the ratio to the weight.
omega_distance_plus(r, e) == Add(weight(e), r)

\* MyRatio::distance, the standard policy: `*edge.weight() - *ratio`
omega_distance(r, e) == Sub(weight(e), r)

\* The get_weight closure handed to howard: `|e| *e.weight()` by a direct
\* caller, `|e| self.omega.distance(ratio, &e)` by MaxParametricSolver::run.
get_weight(e) == IF run_pc = "none" THEN weight(e) ELSE omega_distance(ratio, e)

\* ------------------------------------------------------- NegCycleFinder
\* An insert that keeps the entry a key already has.
Insert_if_absent(m, k, v) ==
    [x \in (DOMAIN m) \cup {k} |-> IF x \in DOMAIN m THEN m[x] ELSE v]

\* HashMap::insert
Insert(m, k, v) == [x \in (DOMAIN m) \cup {k} |-> IF x = k THEN v ELSE m[x]]

\* A relaxation-test variant that also fires on equality.
improves_or_ties(dv, cand) == ~Gt(cand, dv)

\* relax: `if dist[vtx.index()] > distance`
improves(dv, cand) == Gt(dv, cand)

\* The loops of relax from the i-th edge on, updates applied in place.
\* `dist[utx.index()]` and `dist[vtx.index()]` panic on an index that the
\* slice does not have.
RECURSIVE RelaxFrom(_, _, _, _)
RelaxFrom(i, d, p, changed) ==
    IF i > Len(edges)
    THEN [dist |-> d, pred |-> p, changed |-> changed, panic |-> FALSE]
    ELSE IF edges[i].src \notin DOMAIN d \/ edges[i].dst \notin DOMAIN d
    THEN [dist |-> d, pred |-> p, changed |-> changed, panic |-> TRUE]
    ELSE LET utx == edges[i].src
             vtx == edges[i].dst
             cand == Add(d[utx], get_weight(i))   \* `distance` in relax
         IN  IF improves(d[vtx], cand)
             THEN RelaxFrom(i + 1, [d EXCEPT ![vtx] = cand],
                            Insert(p, vtx, <<utx, i>>), TRUE)
             ELSE RelaxFrom(i + 1, d, p, changed)

\* One pass of relax over every edge.
relax(d, p) == RelaxFrom(1, d, p, FALSE)

\* The inner while loop of find_cycle from `visited.insert(utx, vtx)` on;
\* vis is the visited map after the insert and log the inserts made so far,
\* each as <<key, value>>.  Yields the node found, or None, and the visited
\* map and the inserts left behind.
RECURSIVE Walk(_, _, _, _, _)
\* An inner loop that takes any visited predecessor for a cycle.
Inserted_any_tag(p, vis, log, vtx, utx) ==
    IF utx \notin DOMAIN p THEN [found |-> None, visited |-> vis, log |-> log]
    ELSE IF p[utx][1] \in DOMAIN vis
    THEN [found |-> p[utx][1], visited |-> vis, log |-> log]
    ELSE Walk(p, vis, log, vtx, p[utx][1])

Inserted(p, vis, log, vtx, utx) ==
    IF utx \notin DOMAIN p THEN [found |-> None, visited |-> vis, log |-> log]
    ELSE IF p[utx][1] \in DOMAIN vis
    THEN [found |-> IF vis[p[utx][1]] = vtx THEN p[utx][1] ELSE None,
          visited |-> vis, log |-> log]
    ELSE Walk(p, vis, log, vtx, p[utx][1])

\* The inner while loop of find_cycle, entered with utx not yet visited.
Walk(p, visited, log, vtx, utx) ==
    Inserted(p, Insert(visited, utx, vtx), Append(log, <<utx, vtx>>), vtx, utx)

\* The for loop of find_cycle from node vtx on; r is the outcome of the
\* walk just made.
RECURSIVE Scan(_, _, _, _)
AfterWalk(p, r, vtx) ==
    IF r.found # None THEN r ELSE Scan(p, r.visited, r.log, vtx + 1)

Scan(p, visited, log, vtx) ==
    IF vtx >= n THEN [found |-> None, visited |-> visited, log |-> log]
    ELSE IF vtx \in DOMAIN visited THEN Scan(p, visited, log, vtx + 1)
    ELSE AfterWalk(p, Walk(p, visited, log, vtx, vtx), vtx)

\* find_cycle with the visited map and the inserts of its scan.
find_cycle_scan(p) == Scan(p, <<>>, <<>>, 0)

find_cycle(p) == find_cycle_scan(p).found

\* The loop of cycle_list.  `self.pred[&vtx]` panics on a missing key; a
\* walk that never comes back to handle never returns.
RECURSIVE CycleLoop(_, _, _, _)
\* A loop that leaves before pushing the edge that closes the cycle.
CycleLoop_unclosed(p, handle, vtx, cycle) ==
    IF vtx \notin DOMAIN p THEN [tag |-> "panic", cycle |-> cycle]
    ELSE IF Len(cycle) > n THEN [tag |-> "hang", cycle |-> cycle]
    ELSE IF p[vtx][1] = handle
    THEN [tag |-> "Some", cycle |-> cycle]
    ELSE CycleLoop(p, handle, p[vtx][1], Append(cycle, p[vtx][2]))

CycleLoop(p, handle, vtx, cycle) ==
    IF vtx \notin DOMAIN p THEN [tag |-> "panic", cycle |-> cycle]
    ELSE IF Len(cycle) > n THEN [tag |-> "hang", cycle |-> cycle]
    ELSE IF p[vtx][1] = handle
    THEN [tag |-> "Some", cycle |-> Append(cycle, p[vtx][2])]
    ELSE CycleLoop(p, handle, p[vtx][1], Append(cycle, p[vtx][2]))

\* A cycle_list variant that steps to the predecessor before collecting.
cycle_list_late(p, handle) == CycleLoop(p, handle, p[handle][1], <<>>)

cycle_list(p, handle) == CycleLoop(p, handle, handle, <<>>)

\* The do-while loop of is_negative from node vtx on, after k rounds:
\* "true" at the first edge of the predecessor walk that can still be
\* relaxed, "false" when handle recurs before one.  `self.pred[&vtx]` and
\* `dist[&vtx]` panic on a missing key; a walk that never comes back to
\* handle never returns.
RECURSIVE IsNegativeLoop(_, _, _, _, _)
IsNegativeLoop(p, d, handle, vtx, k) ==
    IF vtx \notin DOMAIN p THEN "panic"
    ELSE IF vtx \notin DOMAIN d \/ p[vtx][1] \notin DOMAIN d THEN "panic"
    ELSE IF k > n THEN "hang"
    ELSE IF Gt(d[vtx], Add(d[p[vtx][1]], get_weight(p[vtx][2]))) THEN "true"
    ELSE IF p[vtx][1] = handle THEN "false"
    ELSE IsNegativeLoop(p, d, handle, p[vtx][1], k + 1)

is_negative(p, d, handle) == IsNegativeLoop(p, d, handle, handle, 0)

NoResult == [tag |-> "pending"]

\* The caller has made no earlier call.
NoCall == [tag |-> "none"]

\* A howard that leaves the predecessor map as it finds it.
HowardCall_keeps_pred ==
    /\ pc = "call"
    /\ pred' = pred
    /\ pc' = "relax"
    /\ UNCHANGED <<n, edges, dist, result, bf_vars, run_vars, caller_vars>>

\* howard: self.pred.clear()
HowardCall ==
    /\ pc = "call"
    /\ pred' = <<>>
    /\ pc' = "relax"
    /\ UNCHANGED <<n, edges, dist, result, bf_vars, run_vars, caller_vars>>

\* A loop condition that lets the body run after a pass that changed nothing.
RelaxDone_always_searches(r) ==
    /\ dist' = r.dist
    /\ pred' = r.pred
    /\ pc' = IF r.panic THEN "panic" ELSE "find"
    /\ result' = result

\* howard: the loop condition `self.relax(dist, &get_weight)`, r its outcome
RelaxDone(r) ==
    /\ dist' = r.dist
    /\ pred' = r.pred
    /\ pc' = IF r.panic THEN "panic" ELSE IF r.changed THEN "find" ELSE "done"
    /\ result' = IF r.panic \/ r.changed THEN result ELSE [tag |-> "None"]

HowardRelax ==
    /\ pc = "relax"
    /\ RelaxDone(relax(dist, pred))
    /\ UNCHANGED <<n, edges, bf_vars, run_vars, caller_vars>>

\* howard: `return Some(self.cycle_list(vtx))`, c the outcome of cycle_list
Return(c) ==
    /\ result' = c
    /\ pc' = IF c.tag = "Some" THEN "done" ELSE c.tag

\* howard: the loop body, v_opt the outcome of find_cycle
FindDone(v_opt) ==
    IF v_opt # None
    THEN Return(cycle_list(pred, v_opt))
    ELSE pc' = "relax" /\ result' = result

HowardFind ==
    /\ pc = "find"
    /\ FindDone(find_cycle(pred))
    /\ UNCHANGED <<n, edges, dist, pred, bf_vars, run_vars, caller_vars>>

\* A NegCycleFinder::new on a graph, and a dist slice of length node_count.
InitGraph ==
    /\ n \in NodeCounts
    /\ \E k \in 0 .. MaxEdges : edges \in {s \in [1 .. k -> EdgeSet(n)] : IsGrouped(s)}

InitHoward ==
    /\ InitGraph
    /\ dist \in InitDists(n)
    /\ pred = <<>>
    /\ pc = "call"
    /\ result = NoResult
    /\ source = None /\ distance = <<>> /\ predecessor = <<>> /\ round = 0
    /\ ratio = Zero /\ run_cycle = <<>> /\ r0 = Zero /\ run_pc = "none" /\ iters = 0
    /\ routine = "howard" /\ dist0 = dist /\ first = NoCall

NextHoward == HowardCall \/ HowardRelax \/ HowardFind

SpecHoward == InitHoward /\ [][NextHoward]_vars

\* -------------------------------- find_cycle on a predecessor map
\* The complete digraph on k nodes, self-loops included: every
\* (NodeIndex, EdgeReference) pair a predecessor map can hold names one of
\* its edges.
CompleteGraph(k) ==
    [i \in 1 .. (k * k) |-> [src |-> (i - 1) \div k, dst |-> (i - 1) % k, w |-> 0]]

\* The predecessor maps over k nodes: a node has no entry, or the entry
\* (u, e) with e an edge from u to the node.
PredMaps(k) ==
    UNION {{[v \in D |-> <<f[v], f[v] * k + v + 1>>] : f \in [D -> 0 .. (k - 1)]}
           : D \in SUBSET (0 .. (k - 1))}

\* A NegCycleFinder whose pred field holds a predecessor map.
InitFindCycle ==
    /\ n \in 1 .. MaxScanNodes
    /\ edges = CompleteGraph(n)
    /\ pred \in PredMaps(n)
    /\ dist = [v \in Nodes |-> Zero]
    /\ pc = "find_cycle"
    /\ result = NoResult
    /\ source = None /\ distance = <<>> /\ predecessor = <<>> /\ round = 0
    /\ ratio = Zero /\ run_cycle = <<>> /\ r0 = Zero /\ run_pc = "none" /\ iters = 0
    /\ routine = "find_cycle" /\ dist0 = <<>> /\ first = NoCall

\* find_cycle: one call, r the outcome of its scan
FindCycleReturned(r) ==
    /\ result' = [tag |-> "find_cycle", found |-> r.found,
                  visited |-> r.visited, log |-> r.log]
    /\ pc' = "returned"

FindCycleCall ==
    /\ pc = "find_cycle"
    /\ FindCycleReturned(find_cycle_scan(pred))
    /\ UNCHANGED <<n, edges, dist, pred, bf_vars, run_vars, caller_vars>>

\* cycle_list: one call on a node handle, c its outcome
CycleListReturned(handle, c) ==
    /\ result' = [tag |-> "cycle_list", handle |-> handle, out |-> c]
    /\ pc' = "listed"

CycleListCall ==
    /\ pc = "returned"
    /\ \E handle \in Nodes : CycleListReturned(handle, cycle_list(pred, handle))
    /\ UNCHANGED <<n, edges, dist, pred, bf_vars, run_vars, caller_vars>>

NextFindCycle == FindCycleCall \/ CycleListCall

SpecFindCycle == InitFindCycle /\ [][NextFindCycle]_vars

\* ------------------------------- MaxParametricSolver (parametric.rs)
\* MyRatio::zero_cancel's loop: `total_weight = total_weight + *edge.weight()`
RECURSIVE TotalWeight(_, _, _)
TotalWeight(c, k, total_weight) ==
    IF k > Len(c) THEN total_weight
    ELSE TotalWeight(c, k + 1, Add(total_weight, weight(c[k])))

\* A zero_cancel that returns the total weight undivided.
zero_cancel_total(c) == TotalWeight(c, 1, Zero)

\* MyRatio::zero_cancel, the standard policy: the mean weight of the cycle.
zero_cancel(c) == Div(TotalWeight(c, 1, Zero), FromInteger(Len(c)))

\* `if *ratio > ri`
better(r, ri) == Gt(r, ri)

\* run, top of the loop: dist is reset to zero and howard is called.
RunLoop ==
    /\ run_pc = "loop"
    /\ dist' = [v \in DOMAIN dist |-> Zero]
    /\ pc' = "call"
    /\ result' = NoResult
    /\ run_pc' = "howard"
    /\ iters' = iters + 1
    /\ UNCHANGED <<n, edges, pred, ratio, run_cycle, r0, bf_vars, caller_vars>>

\* An adoption that takes the witness and keeps the old ratio.
Adopt_stale(ri, ci) ==
    IF Gt(ratio, ri)
    THEN ratio' = ratio /\ run_cycle' = ci /\ run_pc' = "loop"
    ELSE ratio' = ratio /\ run_cycle' = run_cycle /\ run_pc' = "return"

\* An adoption that takes the ratio and forgets the witness.
Adopt_forgets(ri, ci) ==
    IF Gt(ratio, ri)
    THEN ratio' = ri /\ run_cycle' = run_cycle /\ run_pc' = "loop"
    ELSE ratio' = ratio /\ run_cycle' = run_cycle /\ run_pc' = "return"

\* run, howard returned Some(ci) and ri = zero_cancel(ci): adopt and
\* continue, or break.
Adopt(ri, ci) ==
    IF better(ratio, ri)
    THEN ratio' = ri /\ run_cycle' = ci /\ run_pc' = "loop"
    ELSE ratio' = ratio /\ run_cycle' = run_cycle /\ run_pc' = "return"

\* run, from howard's return to the next iteration or to `break`.
RunHowardReturned ==
    /\ run_pc = "howard"
    /\ pc = "done"
    /\ IF result.tag = "Some"
       THEN Adopt(zero_cancel(result.cycle), result.cycle)
       ELSE ratio' = ratio /\ run_cycle' = run_cycle /\ run_pc' = "return"
    /\ pc' = "idle"
    /\ UNCHANGED <<n, edges, dist, pred, result, r0, iters, bf_vars, caller_vars>>

\* MaxParametricSolver::new on a graph, then run(&mut dist, &mut ratio).
InitParametric ==
    /\ InitGraph
    /\ dist \in RunInitDists(n)
    /\ pred = <<>>
    /\ pc = "idle"
    /\ result = NoResult
    /\ ratio \in InitRatios
    /\ r0 = ratio
    /\ run_cycle = <<>>
    /\ run_pc = "loop"
    /\ iters = 0
    /\ routine = "run" /\ dist0 = <<>> /\ first = NoCall
    /\ source = None /\ distance = <<>> /\ predecessor = <<>> /\ round = 0

NextParametric ==
    RunLoop \/ HowardCall \/ HowardRelax \/ HowardFind \/ RunHowardReturned

SpecParametric == InitParametric /\ [][NextParametric]_vars

\* The caller calls run once more on the same solver and graph: with the
\* ratio the first call left or with the first call's initial ratio, and
\* with dist as it was left or set anew.
RunAgain ==
    /\ routine = "run"
    /\ run_pc = "return"
    /\ first = NoCall
    /\ first' = [tag |-> "run", cycle |-> run_cycle, ratio |-> ratio, r0 |-> r0,
                 dist |-> dist]
    /\ ratio' \in {ratio, r0}
    /\ r0' = ratio'
    /\ dist' \in RunInitDists(n) \cup {dist}
    /\ run_cycle' = <<>>
    /\ run_pc' = "loop"
    /\ iters' = 0
    /\ UNCHANGED <<n, edges, pred, pc, result, bf_vars, routine, dist0>>

\* A caller that hands howard or run a dist slice with fewer entries than
\* the graph has nodes.
InitShortDist ==
    /\ InitGraph
    /\ \E k \in 0 .. (n - 1) : dist = [v \in 0 .. (k - 1) |-> Zero]
    /\ pred = <<>>
    /\ result = NoResult
    /\ \/ routine = "howard" /\ pc = "call" /\ run_pc = "none" /\ ratio = Zero
       \/ routine = "run" /\ pc = "idle" /\ run_pc = "loop" /\ ratio \in InitRatios
    /\ r0 = ratio
    /\ run_cycle = <<>>
    /\ iters = 0
    /\ dist0 = dist /\ first = NoCall
    /\ source = None /\ distance = <<>> /\ predecessor = <<>> /\ round = 0

SpecShortDist == InitShortDist /\ [][NextParametric]_vars

\* After run has returned, the caller tries a candidate ratio next to the
\* returned one: howard from all-zero distances under distance(candidate, e).
Probe ==
    /\ routine = "run"
    /\ run_pc = "return"
    /\ first = NoCall
    /\ first' = [tag |-> "run", cycle |-> run_cycle, ratio |-> ratio, r0 |-> r0,
                 dist |-> dist]
    /\ \E d \in ProbeOffsets : ratio' = Add(ratio, d)
    /\ dist' = [v \in DOMAIN dist |-> Zero]
    /\ pc' = "call"
    /\ result' = NoResult
    /\ run_pc' = "probe"
    /\ UNCHANGED <<n, edges, pred, run_cycle, r0, iters, bf_vars, routine, dist0>>

NextProbe == NextParametric \/ Probe

SpecProbe == InitParametric /\ [][NextProbe]_vars

NextRunTwice == NextParametric \/ RunAgain

SpecRunTwice == InitParametric /\ [][NextRunTwice]_vars

\* ------------------------------------------------- Bellman-Ford (lib.rs)
\* EdgeWeight is a FloatMeasure: the (integer-valued) floats and infinite().
Inf == 1000000

\* A float addition that treats the infinite sentinel as an ordinary number.
FAdd_unsaturated(a, w) == a + w

\* distance[ix(i)] + w : infinity plus a finite weight is infinity.
FAdd(a, w) == IF a = Inf THEN Inf ELSE a + w

\* `if distance[ix(i)] + w < distance[ix(j)]`
shorter(a, b) == a < b

\* A pass-loop range that is one iteration short.
in_range_short(r) == r < n - 1

\* `for _ in 1..g.node_count()` : r is in the range
in_range(r) == r < n

\* A predecessor update that confuses the two ends of the edge.
set_predecessor_swapped(p, i) == [p EXCEPT ![edges[i].src] = edges[i].dst]

\* `predecessor[ix(j)] = Some(i)` for the i-th edge
set_predecessor(p, i) == [p EXCEPT ![edges[i].dst] = edges[i].src]

\* One pass of Step 2 from the i-th edge on.
RECURSIVE PassFrom(_, _, _, _)
PassFrom(i, d, p, did_update) ==
    IF i > Len(edges)
    THEN [distance |-> d, predecessor |-> p, did_update |-> did_update]
    ELSE IF shorter(FAdd(d[edges[i].src], edges[i].w), d[edges[i].dst])
    THEN PassFrom(i + 1,
                  [d EXCEPT ![edges[i].dst] = FAdd(d[edges[i].src], edges[i].w)],
                  set_predecessor(p, i),
                  TRUE)
    ELSE PassFrom(i + 1, d, p, did_update)

\* bellman_ford_initialize_relax, Step 1: initialize graph
Initialize ==
    /\ pc = "call"
    /\ predecessor' = [v \in Nodes |-> None]
    /\ distance' = [v \in Nodes |-> IF v = source THEN 0 ELSE Inf]
    /\ round' = 1
    /\ pc' = IF in_range(1) THEN "step2" ELSE "check"
    /\ UNCHANGED <<n, edges, result, source, ncf_vars, run_vars, caller_vars>>

\* r is the outcome of one pass: store it, then `if !did_update { break }`
\* or the next value of the loop counter.
PassDone(r) ==
    /\ distance' = r.distance
    /\ predecessor' = r.predecessor
    /\ round' = round + 1
    /\ pc' = IF r.did_update /\ in_range(round + 1) THEN "step2" ELSE "check"

\* bellman_ford_initialize_relax, Step 2: one iteration of the pass loop
Step2 ==
    /\ pc = "step2"
    /\ PassDone(PassFrom(1, distance, predecessor, FALSE))
    /\ UNCHANGED <<n, edges, result, source, ncf_vars, run_vars, caller_vars>>

\* The first edge (in iteration order, from the i-th on) that still admits
\* improvement, or 0.
RECURSIVE FirstImprovable(_)
FirstImprovable(i) ==
    IF i > Len(edges) THEN 0
    ELSE IF shorter(FAdd(distance[edges[i].src], edges[i].w), distance[edges[i].dst])
    THEN i
    ELSE FirstImprovable(i + 1)

\* bellman_ford, Step 3: check for negative weight cycle
BellmanFordCheck ==
    /\ pc = "check"
    /\ result' = IF FirstImprovable(1) # 0
                  THEN [tag |-> "Err"]
                  ELSE [tag |-> "Ok", distances |-> distance,
                        predecessors |-> predecessor]
    /\ pc' = "done"
    /\ UNCHANGED <<n, edges, bf_vars, ncf_vars, run_vars, caller_vars>>

InitBellmanFord ==
    /\ InitGraph
    /\ source \in Nodes
    /\ distance = <<>> /\ predecessor = <<>> /\ round = 0
    /\ ratio = Zero /\ run_cycle = <<>> /\ r0 = Zero /\ run_pc = "none" /\ iters = 0
    /\ pc = "call"
    /\ result = NoResult
    /\ dist = <<>> /\ pred = <<>>
    /\ routine = "bellman_ford" /\ dist0 = <<>> /\ first = NoCall

NextBellmanFord == Initialize \/ Step2 \/ BellmanFordCheck

SpecBellmanFord == InitBellmanFord /\ [][NextBellmanFord]_vars

\* Vec::reverse
RECURSIVE Reverse(_)
Reverse(q) == IF q = <<>> THEN <<>> ELSE Append(Reverse(Tail(q)), Head(q))

\* Vec::pop (the value popped is not used)
Pop(q) == SubSeq(q, 1, Len(q) - 1)

\* `while path_set.visit(node) { node = predecessor[ix(node)].unwrap(); }` :
\* the node the loop stops at, or None when the unwrap panics.
RECURSIVE VisitLoop(_, _)
VisitLoop(node, path_set) ==
    IF node \in path_set THEN node
    ELSE IF predecessor[node] = None THEN None
    ELSE VisitLoop(predecessor[node], path_set \cup {node})

\* The `loop` that pushes the cycle's nodes, entered at cycle_node with
\* path so far; node lies on a cycle of predecessor.
RECURSIVE PushLoop(_, _, _)
PushLoop(node, cycle_node, path) ==
    IF predecessor[cycle_node] = node
    THEN Append(Append(path, cycle_node), node)
    ELSE PushLoop(node, predecessor[cycle_node], Append(path, cycle_node))

\* A Step 3 that keeps the closing node, so that it stands at both ends.
Step3_unpopped(node) == Reverse(PushLoop(node, node, <<>>))

\* Step 3 from the node the visit loop stopped at, up to `break 'outer`.
Step3(node) == Pop(Reverse(PushLoop(node, node, <<>>)))

\* find_negative_cycle after Step 2, j the target of the first improvable
\* edge and node where the visit loop ended: the value returned, or the
\* panic of `unwrap` on a None predecessor.
Found(node) ==
    IF node = None
    THEN pc' = "panic" /\ result' = result
    ELSE pc' = "done" /\ result' = [tag |-> "Some", path |-> Reverse(Step3(node))]

\* find_negative_cycle, Step 2 (check) and Step 3
FindNegativeCycleCheck ==
    /\ pc = "check"
    /\ IF FirstImprovable(1) = 0
       THEN pc' = "done" /\ result' = [tag |-> "None"]
       ELSE Found(VisitLoop(edges[FirstImprovable(1)].dst, {}))
    /\ UNCHANGED <<n, edges, bf_vars, ncf_vars, run_vars, caller_vars>>

NextFindNegativeCycle == Initialize \/ Step2 \/ FindNegativeCycleCheck

\* A graph and a source for find_negative_cycle.
InitFindNegativeCycle ==
    /\ InitGraph
    /\ source \in Nodes
    /\ distance = <<>> /\ predecessor = <<>> /\ round = 0
    /\ ratio = Zero /\ run_cycle = <<>> /\ r0 = Zero /\ run_pc = "none" /\ iters = 0
    /\ pc = "call"
    /\ result = NoResult
    /\ dist = <<>> /\ pred = <<>>
    /\ routine = "find_negative_cycle" /\ dist0 = <<>> /\ first = NoCall

SpecFindNegativeCycle == InitFindNegativeCycle /\ [][NextFindNegativeCycle]_vars

\* ------------------------------------------------ a caller calling twice
\* howard has returned and its caller calls it once more on the same
\* NegCycleFinder (pred is what the first call left): with dist reset to the
\* values it had before the first call, or with dist as the first call left it.
HowardAgain ==
    /\ routine = "howard"
    /\ pc = "done"
    /\ first = NoCall
    /\ dist' \in {dist0, dist}
    /\ first' = [tag |-> "howard", result |-> result, dist |-> dist, entry |-> dist']
    /\ pc' = "call"
    /\ result' = NoResult
    /\ UNCHANGED <<n, edges, pred, bf_vars, run_vars, routine, dist0>>

NextHowardTwice == NextHoward \/ HowardAgain

\* bellman_ford has returned and its caller calls it once more.
BellmanFordAgain ==
    /\ routine = "bellman_ford"
    /\ pc = "done"
    /\ first = NoCall
    /\ first' = [tag |-> "bellman_ford", result |-> result]
    /\ pc' = "call"
    /\ result' = NoResult
    /\ UNCHANGED <<n, edges, bf_vars, ncf_vars, run_vars, routine, dist0>>

\* find_negative_cycle has returned and its caller calls it once more.
FindNegativeCycleAgain ==
    /\ routine = "find_negative_cycle"
    /\ pc = "done"
    /\ first = NoCall
    /\ first' = [tag |-> "find_negative_cycle", result |-> result]
    /\ pc' = "call"
    /\ result' = NoResult
    /\ UNCHANGED <<n, edges, bf_vars, ncf_vars, run_vars, routine, dist0>>

\* Any of the four routines, called twice in a row by its caller.
InitTwice ==
    InitHoward \/ InitParametric \/ InitBellmanFord \/ InitFindNegativeCycle

NextTwice ==
    \/ routine = "howard" /\ NextHowardTwice
    \/ routine = "run" /\ NextRunTwice
    \/ routine = "bellman_ford" /\ (NextBellmanFord \/ BellmanFordAgain)
    \/ routine = "find_negative_cycle" /\ (NextFindNegativeCycle \/ FindNegativeCycleAgain)

SpecTwice == InitTwice /\ [][NextTwice]_vars

\* A step of the running call: every step of NextHoward moves pc.
Running == pc' # pc

\* ------------------------------------------------- graph-theoretic terms
\* <<u, v, t>> : the graph has a walk of exactly k >= 1 edges from u to v
\* of total (integer) weight t.
RECURSIVE Walks(_)
Walks(k) ==
    IF k = 1
    THEN {<<edges[i].src, edges[i].dst, edges[i].w>> : i \in DOMAIN edges}
    ELSE UNION {{<<a[1], edges[i].dst, a[3] + edges[i].w>> :
                     i \in {j \in DOMAIN edges : edges[j].src = a[2]}} :
                a \in Walks(k - 1)}

ClosedWalks == UNION {{a \in Walks(k) : a[1] = a[2]} : k \in 1 .. n}

\* A directed cycle of strictly negative total weight exists.  (A negative
\* closed walk contains a negative simple cycle, and a simple cycle has at
\* most n edges.)
HasNegativeCycle == \E a \in ClosedWalks : a[3] < 0

AllWalks == UNION {Walks(k) : k \in 1 .. n}

\* v can be reached from source (by the empty walk, or by a walk; a walk
\* to v can be shortened to one of fewer than n edges).
Reachable(v) == v = source \/ \E a \in AllWalks : a[1] = source /\ a[2] = v

\* A negative-weight cycle is reachable from source.
ReachableNegativeCycle ==
    \E a \in ClosedWalks : a[3] < 0 /\ Reachable(a[1])

Min(S) == CHOOSE x \in S : \A y \in S : x <= y

\* The least total weight of a walk from source to v, v reachable.  With no
\* negative cycle reachable, walks of more than n edges weigh no less.
ShortestWalk(v) ==
    Min({a[3] : a \in {b \in AllWalks : b[1] = source /\ b[2] = v}}
        \cup (IF v = source THEN {0} ELSE {}))

RECURSIVE SumW(_)
SumW(c) == IF c = <<>> THEN 0 ELSE edges[c[1]].w + SumW(Tail(c))

\* c is a sequence of edge references, in predecessor order, that walks one
\* simple directed cycle backwards.
IsSimpleCycle(c) ==
    /\ Len(c) >= 1
    /\ \A i \in DOMAIN c : c[i] \in DOMAIN edges
    /\ \A i \in 1 .. (Len(c) - 1) : edges[c[i + 1]].dst = edges[c[i]].src
    /\ edges[c[1]].dst = edges[c[Len(c)]].src
    /\ \A i, j \in DOMAIN c : i # j => edges[c[i]].dst # edges[c[j]].dst

\* ---------------------------------------------------------------- claims
\* C1: howard returns None if and only if the graph has no directed cycle
\* of strictly negative total weight under get_weight.
C1_HowardNoneIffNoNegativeCycle ==
    pc = "done" => ((result.tag = "None") <=> ~HasNegativeCycle)

\* C1 witness: howard returned a three-edge witness on a graph that has a
\* negative cycle, started from a dist slice that is not all zero.
C1_Witness ==
    /\ pc = "done" /\ result.tag = "Some" /\ Len(result.cycle) = 3
    /\ HasNegativeCycle
    /\ \E v \in Nodes : dist[v] # Zero

\* C2: a witness returned by howard is non-empty, has at most node_count
\* edges, consists of edges of the graph that form one simple directed
\* cycle, and its total weight is strictly negative.
C2_WitnessIsNegativeSimpleCycle ==
    (pc = "done" /\ result.tag = "Some") =>
        /\ Len(result.cycle) <= n
        /\ IsSimpleCycle(result.cycle)
        /\ SumW(result.cycle) < 0

\* C2 witness: howard returned a two-edge witness in a graph that also has
\* an edge outside the witness.
C2_Witness ==
    /\ pc = "done" /\ result.tag = "Some" /\ Len(result.cycle) = 2
    /\ Len(edges) = 3

\* C3: every howard call terminates with a value: it never panics and
\* never hangs, and a call that keeps taking steps reaches its return (no
\* run takes infinitely many steps).
C3_HowardTerminates ==
    /\ [](pc \notin {"panic", "hang"})
    /\ ([]<><<Running>>_vars => <>(pc = "done"))

\* C3 witness: howard returned None after more than one relaxation pass
\* on a graph that has a cycle.
C3_Witness ==
    /\ pc = "done" /\ result.tag = "None"
    /\ ClosedWalks # {}
    /\ pred # <<>>

C5_DistancesAreShortest ==
    (pc = "done" /\ result.tag = "Ok") =>
        /\ result.distances[source] = 0
        /\ \A v \in Nodes :
              IF Reachable(v)
              THEN result.distances[v] = ShortestWalk(v)
              ELSE result.distances[v] = Inf
        /\ \A i \in DOMAIN edges :
              Reachable(edges[i].src) =>
                  result.distances[edges[i].dst]
                      <= result.distances[edges[i].src] + edges[i].w

\* C5 witness: bellman_ford returned Ok with a node at negative distance
\* whose shortest walk has two edges and beats a direct edge from source.
C5_Witness ==
    /\ pc = "done" /\ result.tag = "Ok"
    /\ \E v \in Nodes :
          /\ result.distances[v] < 0
          /\ result.predecessors[v] \in Nodes \ {source}
          /\ \E i \in DOMAIN edges : edges[i].src = source /\ edges[i].dst = v

\* The node reached from v by following predecessors k times (None once
\* the chain has ended).
RECURSIVE Ancestor(_, _, _)
Ancestor(p, v, k) ==
    IF k = 0 \/ v = None THEN v ELSE Ancestor(p, p[v], k - 1)

\* C6: when bellman_ford returns Ok, predecessors is a shortest-path tree:
\* None at source and at unreachable nodes; elsewhere Some(u) with an edge
\* u->v of weight w such that distances[v] = distances[u] + w; and the
\* predecessor chain of a reachable node reaches source without repeating
\* a node.
C6_PredecessorsAreShortestPathTree ==
    (pc = "done" /\ result.tag = "Ok") =>
        /\ result.predecessors[source] = None
        /\ \A v \in Nodes \ {source} :
              IF Reachable(v)
              THEN /\ result.predecessors[v] \in Nodes
                   /\ \E i \in DOMAIN edges :
                         /\ edges[i].src = result.predecessors[v]
                         /\ edges[i].dst = v
                         /\ result.distances[v]
                              = result.distances[edges[i].src] + edges[i].w
                   /\ \E k \in 1 .. (n - 1) :
                         /\ Ancestor(result.predecessors, v, k) = source
                         /\ \A i, j \in 0 .. k :
                               i # j => Ancestor(result.predecessors, v, i)
                                          # Ancestor(result.predecessors, v, j)
              ELSE result.predecessors[v] = None

\* C6 witness: bellman_ford returned Ok with a predecessor chain of two
\* edges ending at source, source not being node 0.
C6_Witness ==
    /\ pc = "done" /\ result.tag = "Ok" /\ source # 0
    /\ \E v \in Nodes :
          /\ result.predecessors[v] \in Nodes \ {source}
          /\ result.predecessors[result.predecessors[v]] = source

\* C7: find_negative_cycle completes on every graph and source, with
\* Some(non-empty path) when a negative cycle is reachable from source and
\* None otherwise.
C7_FindNegativeCycleCompletes ==
    (pc \in {"done", "panic"} /\ result.tag \in {"pending", "Some", "None"}) =>
        /\ pc = "done"
        /\ IF ReachableNegativeCycle
           THEN result.tag = "Some" /\ result.path # <<>>
           ELSE result.tag = "None"

\* The least weight of an edge from u to v.
MinEdge(u, v) ==
    Min({edges[i].w : i \in {j \in DOMAIN edges : edges[j].src = u /\ edges[j].dst = v}})

HasEdge(u, v) == \E i \in DOMAIN edges : edges[i].src = u /\ edges[i].dst = v

\* q[k] -> q[k+1] for every k, and q[Len(q)] -> q[1], are edges of the graph.
IsCycleOrder(q) ==
    /\ \A k \in 1 .. (Len(q) - 1) : HasEdge(q[k], q[k + 1])
    /\ HasEdge(q[Len(q)], q[1])

RECURSIVE CycleWeight(_, _)
CycleWeight(q, k) ==
    IF k > Len(q) THEN 0
    ELSE MinEdge(q[k], q[IF k = Len(q) THEN 1 ELSE k + 1]) + CycleWeight(q, k + 1)

\* The orderings of the nodes of path.
Orderings(path) ==
    {q \in [1 .. Len(path) -> {path[k] : k \in DOMAIN path}] :
        \A i, j \in DOMAIN q : i # j => q[i] # q[j]}

\* C8: the nodes of a path returned by find_negative_cycle are pairwise
\* distinct and are the nodes of one directed cycle of the graph that is
\* reachable from source and has strictly negative total weight.
C8_PathIsNegativeCycle ==
    (pc = "done" /\ result.tag = "Some") =>
        /\ result.path # <<>>
        /\ \A i, j \in DOMAIN result.path : i # j => result.path[i] # result.path[j]
        /\ \A k \in DOMAIN result.path : Reachable(result.path[k])
        /\ \E q \in Orderings(result.path) : IsCycleOrder(q) /\ CycleWeight(q, 1) < 0

\* C8 witness: find_negative_cycle returned a path of three nodes from a
\* source other than node 0.
C8_Witness ==
    /\ pc = "done" /\ result.tag = "Some" /\ Len(result.path) = 3
    /\ source # 0

\* C9: the path returned by find_negative_cycle is in traversal order:
\* each node is followed (cyclically) by the node the detected cycle's
\* edge leads to.
C9_PathInTraversalOrder ==
    (pc = "done" /\ result.tag = "Some") =>
        /\ \A k \in 1 .. (Len(result.path) - 1) :
              /\ HasEdge(result.path[k], result.path[k + 1])
              /\ predecessor[result.path[k + 1]] = result.path[k]
        /\ HasEdge(result.path[Len(result.path)], result.path[1])
        /\ predecessor[result.path[1]] = result.path[Len(result.path)]

\* The mean weights of the closed walks of at most n edges; the least of
\* them is the least mean weight of a directed cycle.
CycleMeans ==
    UNION {{Reduce(a[3], k) : a \in {b \in Walks(k) : b[1] = b[2]}} : k \in 1 .. n}

MinCycleMean == CHOOSE m \in CycleMeans : \A x \in CycleMeans : ~Gt(m, x)

\* C10: with the standard policy, run started from ratio r0 returns with
\* ratio equal to the minimum cycle mean when that minimum is below r0, and
\* otherwise with ratio still r0 and an empty witness.
C10_RunReachesMinimumCycleMean ==
    run_pc = "return" =>
        IF CycleMeans # {} /\ Gt(r0, MinCycleMean)
        THEN ratio = MinCycleMean
        ELSE ratio = r0 /\ run_cycle = <<>>

\* C10 witness: run returned the minimum cycle mean, below r0, on a graph
\* that also has a cycle whose mean lies strictly between the two.
C10_Witness ==
    /\ run_pc = "return"
    /\ Len(run_cycle) = 2
    /\ ratio = MinCycleMean
    /\ \E x \in CycleMeans : Gt(x, ratio) /\ Gt(r0, x)

\* C11: on return from run the witness and the ratio agree: a non-empty
\* witness is a closed cycle of graph edges whose zero_cancel is the
\* returned ratio, and the witness is empty exactly when ratio still has
\* its initial value.
C11_WitnessAgreesWithRatio ==
    run_pc = "return" =>
        /\ run_cycle # <<>> =>
              /\ IsSimpleCycle(run_cycle)
              /\ zero_cancel(run_cycle) = ratio
        /\ (run_cycle = <<>>) <=> (ratio = r0)

\* C11 witness: run returned a three-edge witness and a ratio other than
\* the initial one.
C11_Witness ==
    /\ run_pc = "return"
    /\ Len(run_cycle) = 3
    /\ ratio # r0
    /\ zero_cancel(run_cycle) = ratio

\* C12: the ratio run returns is a fixpoint: a second run started from it
\* finds no negative cycle, leaves ratio unchanged and returns an empty
\* witness.
C12_ReturnedRatioIsFixpoint ==
    (run_pc = "return" /\ first.tag = "run" /\ r0 = first.ratio) =>
        /\ result.tag = "None"
        /\ iters = 1
        /\ ratio = r0
        /\ run_cycle = <<>>

\* C12 witness: the second run has returned, started from a ratio the first
\* run had adopted together with a three-edge witness.
C12_Witness ==
    /\ run_pc = "return"
    /\ first.tag = "run"
    /\ r0 = first.ratio
    /\ first.ratio # first.r0
    /\ Len(first.cycle) = 3

\* C13 as stated: every candidate ratio strictly smaller than the one run
\* returned exhibits a negative cycle (howard returns a witness for it).
C13_SmallerCandidateHasNegativeCycle ==
    (run_pc = "probe" /\ pc = "done" /\ Gt(first.ratio, ratio)) =>
        result.tag = "Some"

\* C13, amended: when run returned a witness, every candidate ratio strictly
\* greater than the returned one exhibits a negative cycle; no candidate
\* that is not greater than the returned ratio exhibits one.
C13_GreaterCandidateHasNegativeCycle ==
    (run_pc = "probe" /\ pc = "done") =>
        /\ (Gt(ratio, first.ratio) /\ first.cycle # <<>>) => result.tag = "Some"
        /\ ~Gt(ratio, first.ratio) => result.tag = "None"

\* C13 witness: howard returned a three-edge witness for a candidate just
\* above a ratio that run had adopted.
C13_Witness ==
    /\ run_pc = "probe" /\ pc = "done"
    /\ first.cycle # <<>>
    /\ ratio = Add(first.ratio, <<1, 12>>)
    /\ result.tag = "Some" /\ Len(result.cycle) = 3

\* The simple directed cycles of the graph, as edge sequences in
\* predecessor order, and their mean weights.
SimpleCycles ==
    UNION {{c \in [1 .. k -> DOMAIN edges] : IsSimpleCycle(c)} : k \in 1 .. n}

SimpleCycleMeans == {Reduce(SumW(c), Len(c)) : c \in SimpleCycles}

\* C14: run terminates: it never aborts, every adoption lowers ratio
\* strictly to the mean of a simple cycle of the graph, no more outer
\* iterations are begun than there are distinct simple-cycle means plus one,
\* and no run goes on for ever without returning.
C14_RunTerminates ==
    /\ [](pc \notin {"panic", "hang"})
    /\ [][(run_pc = "howard" /\ run_pc' = "loop") =>
            (Gt(ratio, ratio') /\ ratio' \in SimpleCycleMeans)]_vars
    /\ [][iters' # iters => iters' <= Cardinality(SimpleCycleMeans) + 1]_vars
    /\ ([]<><<Running>>_vars => <>(run_pc = "return"))

\* C14 witness: run returned after three outer iterations, two of them
\* ending in an adoption.
C14_Witness ==
    /\ run_pc = "return"
    /\ iters = 3
    /\ Cardinality(SimpleCycleMeans) = 2
    /\ Gt(r0, ratio)

\* C15: a routine called twice on the same graph, the second call started
\* with dist reset to the same initial values and with the same initial
\* ratio, returns what the first call returned: the same outcome, witness,
\* final dist and ratio.
C15_SecondCallReturnsTheSame ==
    /\ (pc = "done" /\ first.tag = "howard" /\ first.entry = dist0) =>
           (result = first.result /\ dist = first.dist)
    /\ (run_pc = "return" /\ first.tag = "run" /\ r0 = first.r0) =>
           (run_cycle = first.cycle /\ ratio = first.ratio /\ dist = first.dist)
    /\ (pc = "done" /\ first.tag \in {"bellman_ford", "find_negative_cycle"}) =>
           result = first.result

\* C15 witness: the second of two howard calls has returned a witness, dist
\* having been reset in between to initial values that the first call had
\* changed.
C15_Witness ==
    /\ pc = "done"
    /\ first.tag = "howard"
    /\ first.entry = dist0
    /\ first.dist # dist0
    /\ result.tag = "Some"
    /\ \E v \in Nodes : dist0[v] # Zero

\* C16: the result of a call (outcome and witness) does not depend on the
\* dist or pred contents an earlier call left behind: a second call started
\* on what the first call left returns what the first call returned.
C16_ResultIndependentOfLeftovers ==
    /\ (pc = "done" /\ first.tag = "howard") => result = first.result
    /\ (run_pc = "return" /\ first.tag = "run" /\ r0 = first.r0) =>
           (run_cycle = first.cycle /\ ratio = first.ratio)
    /\ (pc = "done" /\ first.tag \in {"bellman_ford", "find_negative_cycle"}) =>
           result = first.result

\* C17: a call of howard or run with a dist slice shorter than the node
\* count aborts: it never returns a result, neither None nor a witness.
C17_ShortDistNeverReturns ==
    /\ routine = "howard" => pc # "done"
    /\ routine = "run" => (pc # "done" /\ run_pc # "return")

\* c is a sequence of edge references in which every edge ends where the
\* next one starts, and the last ends where the first starts.
IsForwardClosedWalk(c) ==
    /\ \A i \in 1 .. (Len(c) - 1) : edges[c[i]].dst = edges[c[i + 1]].src
    /\ edges[c[Len(c)]].dst = edges[c[1]].src

\* C18: every witness returned by howard and by run satisfies the
\* cycle-witness invariant: the target of each edge is the source of the
\* next, and the target of the last edge is the source of the first.
C18_WitnessIsForwardClosedWalk ==
    /\ (pc = "done" /\ result.tag = "Some") => IsForwardClosedWalk(result.cycle)
    /\ (run_pc = "return" /\ run_cycle # <<>>) => IsForwardClosedWalk(run_cycle)

\* What the claim describes: the contents of dist and pred, and whether any
\* dist entry was lowered, after the first i edges were visited in iteration
\* order, each visit lowering dist[v] to dist[u] + w and setting
\* pred[v] = (u, edge) exactly when dist[u] + w < dist[v] at that moment.
OnePass[i \in 0 .. Len(edges)] ==
    IF i = 0 THEN [dist |-> dist, pred |-> pred, lowered |-> FALSE]
    ELSE LET before == OnePass[i - 1]
             u == edges[i].src
             v == edges[i].dst
             sum == Add(before.dist[u], get_weight(i))
         IN  IF Gt(before.dist[v], sum)
             THEN [dist |-> [before.dist EXCEPT ![v] = sum],
                   pred |-> [x \in DOMAIN before.pred \cup {v} |->
                                IF x = v THEN <<u, i>> ELSE before.pred[x]],
                   lowered |-> TRUE]
             ELSE before

\* C19: relax makes exactly one in-place pass over the edges, lowering
\* dist[v] and setting pred[v] exactly for the edges that improve dist[v];
\* it returns true if and only if some dist entry was lowered, and when it
\* returns false dist and pred are unchanged and every edge is relaxed.
C19_RelaxIsOnePass ==
    [][pc = "relax" =>
        /\ dist' = OnePass[Len(edges)].dist
        /\ pred' = OnePass[Len(edges)].pred
        /\ (pc' = "find") <=> (\E v \in Nodes : Gt(dist[v], dist'[v]))
        /\ (pc' = "done") <=> (dist' = dist)
        /\ pc' = "done" =>
              /\ pred' = pred
              /\ \A i \in DOMAIN edges :
                    ~Gt(dist[edges[i].dst], Add(dist[edges[i].src], get_weight(i)))
      ]_vars

\* C19 witness: a relax pass has lowered a node through edge i and then,
\* in the same pass, another node through a later edge j that starts where
\* i ends: the second node's dist is built on the first one's new value.
C19_Witness ==
    /\ pc = "find"
    /\ \E i, j \in DOMAIN edges :
          /\ i < j
          /\ edges[i].dst = edges[j].src
          /\ Cardinality({edges[i].src, edges[i].dst, edges[j].dst}) = 3
          /\ {edges[i].dst, edges[j].dst} \subseteq DOMAIN pred
          /\ pred[edges[i].dst] = <<edges[i].src, i>>
          /\ pred[edges[j].dst] = <<edges[j].src, j>>
          /\ dist[edges[j].dst] = Add(Add(dist0[edges[i].src], weight(i)), weight(j))
          /\ Gt(Add(dist0[edges[j].src], weight(j)), dist[edges[j].dst])

\* The node a chain of predecessors reaches from v in k >= 0 steps, or None
\* when the chain ends before.
RECURSIVE PredStep(_, _)
PredStep(v, k) ==
    IF k = 0 THEN v
    ELSE IF v \notin DOMAIN pred THEN None
    ELSE PredStep(pred[v][1], k - 1)

\* The nodes of the predecessor chain of v, v included.
PredChain(v) == {PredStep(v, k) : k \in 0 .. n} \ {None}

\* v lies on a cycle of the predecessor map.
OnPredCycle(v) == \E k \in 1 .. n : PredStep(v, k) = v

\* C20: for every predecessor map, find_cycle returns Some(v) if and
\* only if the predecessor map contains a cycle; the returned v lies on a
\* cycle of the predecessor map; a pass whose chain reaches a node tagged
\* by another pass root reports no cycle, so that the pass that reports v
\* has tagged its whole chain itself; and during the scan each node is
\* inserted into visited at most once.
C20_FindCycleFindsPredCycles ==
    pc = "returned" =>
        /\ (result.found # None) <=> (\E v \in Nodes : OnPredCycle(v))
        /\ result.found # None => OnPredCycle(result.found)
        /\ \A i \in DOMAIN result.log :
               LET root == result.log[i][2]
                   chain == PredChain(root)
               IN  (\E x \in chain : x \in DOMAIN result.visited /\ result.visited[x] # root)
                   => ~(result.found # None /\ result.visited[result.found] = root)
        /\ \A i, j \in DOMAIN result.log :
               result.log[i][1] = result.log[j][1] => i = j
        /\ \A i \in DOMAIN result.log : result.visited[result.log[i][1]] = result.log[i][2]

\* find_cycle has returned a node of a cycle after an earlier pass tagged
\* nodes and a later pass merged into them and was abandoned.
C20_Witness ==
    /\ pc = "returned"
    /\ result.found # None
    /\ \E i \in DOMAIN result.log :
           /\ result.log[i][2] # result.visited[result.found]
           /\ result.log[i][2] \in DOMAIN pred
           /\ pred[result.log[i][2]][1] \in DOMAIN result.visited
           /\ result.visited[pred[result.log[i][2]][1]] \notin
                  {result.log[i][2], result.visited[result.found]}


\* C21: cycle_list(handle), called with a node on a predecessor cycle,
\* returns that cycle in predecessor order: the first edge is pred[handle]'s
\* edge, whose target is handle; each following edge's target is the
\* previous edge's source; the last edge's source is handle; every edge of
\* the cycle appears exactly once; and the walk stops the first time handle
\* recurs.
C21_CycleListReturnsPredCycle ==
    (pc = "listed" /\ OnPredCycle(result.handle)) =>
        /\ result.out.tag = "Some"
        /\ LET c == result.out.cycle
               handle == result.handle
           IN  /\ Len(c) >= 1
               /\ c[1] = pred[handle][2]
               /\ edges[c[1]].dst = handle
               /\ \A i \in 1 .. (Len(c) - 1) : edges[c[i + 1]].dst = edges[c[i]].src
               /\ edges[c[Len(c)]].src = handle
               /\ {c[i] : i \in DOMAIN c} = {pred[x][2] : x \in PredChain(handle)}
               /\ \A i, j \in DOMAIN c : c[i] = c[j] => i = j
               /\ \A i \in 1 .. (Len(c) - 1) : edges[c[i]].src # handle

\* cycle_list has returned a cycle of three edges from a handle that a
\* fourth node points into.
C21_Witness ==
    /\ pc = "listed"
    /\ OnPredCycle(result.handle)
    /\ result.out.tag = "Some"
    /\ Len(result.out.cycle) = 3
    /\ \E x \in DOMAIN pred : x \notin PredChain(result.handle) /\ pred[x][1] = result.handle

\* C22: at the moment howard detects a predecessor cycle, at least one
\* edge u -> v of that cycle can still be relaxed under the current
\* distances, dist[v] > dist[u] + get_weight(edge): is_negative yields true
\* for the node find_cycle returns, and for every other node on a cycle of
\* the predecessor map.
C22_DetectedCycleIsNegative ==
    pc = "find" =>
        /\ find_cycle(pred) # None => is_negative(pred, dist, find_cycle(pred)) = "true"
        /\ \A v \in Nodes : OnPredCycle(v) => is_negative(pred, dist, v) = "true"

\* howard has detected a predecessor cycle of three edges, one of which
\* can no longer be relaxed.
C22_Witness ==
    /\ pc = "find"
    /\ find_cycle(pred) # None
    /\ Cardinality(PredChain(find_cycle(pred))) = 3
    /\ \E x \in PredChain(find_cycle(pred)) :
           dist[x] = Add(dist[pred[x][1]], get_weight(pred[x][2]))

\* The distances after a relaxation pass has visited the first i edges,
\* lowering in place, from the distances of the current state.
DuringPass[i \in 0 .. Len(edges)] ==
    IF i = 0 THEN distance
    ELSE LET before == DuringPass[i - 1]
             sum == IF before[edges[i].src] = Inf THEN Inf
                    ELSE before[edges[i].src] + edges[i].w
         IN  IF sum < before[edges[i].dst]
             THEN [before EXCEPT ![edges[i].dst] = sum]
             ELSE before

\* The total weights of the walks from source to v.
WalkWeights(v) ==
    {a[3] : a \in {b \in AllWalks : b[1] = source /\ b[2] = v}}
        \cup (IF v = source THEN {0} ELSE {})

\* Every entry of d is infinite, or the weight of a walk from source to
\* its node and so no less than the least such weight.
IsUpperBound(d) ==
    \A v \in Nodes :
        d[v] # Inf => /\ d[v] \in WalkWeights(v)
                      /\ d[v] >= ShortestWalk(v)

\* C23: during the relaxation passes of bellman_ford on a graph with no
\* negative cycle reachable from source, every distance entry is at all
\* times, between passes and between the edges of a pass, an upper bound
\* on the shortest-path distance from source (a finite entry is the weight
\* of a walk from source to its node), and no step increases an entry.
C23_DistancesAreUpperBounds ==
    /\ []((pc \in {"step2", "check", "done"} /\ ~ReachableNegativeCycle) =>
            /\ IsUpperBound(distance)
            /\ pc = "step2" =>
                 \A i \in 1 .. Len(edges) :
                     /\ IsUpperBound(DuringPass[i])
                     /\ \A v \in Nodes : DuringPass[i][v] <= DuringPass[i - 1][v])
    /\ [][(pc = "step2" /\ ~ReachableNegativeCycle) =>
            /\ distance' = DuringPass[Len(edges)]
            /\ \A v \in Nodes : distance'[v] <= distance[v]]_vars

\* A pass is about to lower an entry that an earlier pass made finite, on
\* a graph with no negative cycle reachable from source.
C23_Witness ==
    /\ pc = "step2"
    /\ round >= 2
    /\ ~ReachableNegativeCycle
    /\ \E v \in Nodes \ {source} :
           /\ distance[v] # Inf
           /\ DuringPass[Len(edges)][v] < distance[v]

\* The dist slice as the howard call in progress found it: what the
\* caller of howard handed over, or the zeros run fills in before each of
\* its howard calls.
EntryDist ==
    IF routine = "run" THEN [v \in DOMAIN dist |-> Zero]
    ELSE IF first = NoCall THEN dist0
    ELSE first.entry

\* The last edge of the relaxation pass about to run that assigns dist[v],
\* or 0 when the pass leaves dist[v] alone.
LastAssigning(v) ==
    LET S == {i \in DOMAIN edges :
                 edges[i].dst = v /\ OnePass[i].dist[v] # OnePass[i - 1].dist[v]}
    IN  IF S = {} THEN 0 ELSE CHOOSE i \in S : \A j \in S : j <= i

\* C24: at every point of a howard call after it has cleared pred, each
\* entry pred[v] = (u, e) has e an edge of the graph from u to v and
\* dist[v] >= dist[u] + get_weight(e); a node whose dist is what it was
\* when the call began has no entry; and a relaxation pass leaves in
\* pred[v] the edge of its last assignment to dist[v], or pred[v] as it
\* was when it assigns nothing to dist[v].
C24_PredConsistentWithDist ==
    /\ []((routine \in {"howard", "run"} /\ pc \in {"relax", "find", "done"}) =>
            /\ \A v \in DOMAIN pred :
                   /\ pred[v][2] \in DOMAIN edges
                   /\ edges[pred[v][2]].src = pred[v][1]
                   /\ edges[pred[v][2]].dst = v
                   /\ ~Gt(Add(dist[pred[v][1]], get_weight(pred[v][2])), dist[v])
            /\ \A v \in Nodes : dist[v] = EntryDist[v] => v \notin DOMAIN pred)
    /\ [][(routine \in {"howard", "run"} /\ pc = "relax") =>
            \A v \in Nodes :
                IF LastAssigning(v) # 0
                THEN /\ v \in DOMAIN pred'
                     /\ pred'[v] = <<edges[LastAssigning(v)].src, LastAssigning(v)>>
                     /\ dist'[v] = Add(OnePass[LastAssigning(v) - 1].dist[edges[LastAssigning(v)].src],
                                       get_weight(LastAssigning(v)))
                ELSE /\ dist'[v] = dist[v]
                     /\ (v \in DOMAIN pred') <=> (v \in DOMAIN pred)
                     /\ v \in DOMAIN pred => pred'[v] = pred[v]]_vars

\* In a second howard call on the same finder, a pass has assigned dist[v]
\* twice, pred[v] holds the later edge, and the dist of that edge's source
\* has been lowered since, so that dist[v] > dist[u] + get_weight(e).
C24_Witness ==
    /\ routine = "howard"
    /\ first # NoCall
    /\ pc = "find"
    /\ \E v \in DOMAIN pred :
           /\ Gt(dist[v], Add(dist[pred[v][1]], get_weight(pred[v][2])))
           /\ \E i \in DOMAIN edges : i < pred[v][2] /\ edges[i].dst = v
                  /\ Gt(EntryDist[v], Add(EntryDist[edges[i].src], get_weight(i)))
                  /\ Gt(Add(EntryDist[edges[i].src], get_weight(i)), dist[v])

\* The predecessor map contains a cycle.
HasPredCycle == \E v \in Nodes : OnPredCycle(v)

\* C25: howard alternates one relaxation pass, then one cycle search.  A
\* pass is followed by a search exactly when it lowered some dist entry,
\* and by the return of None (without a search) when it changed nothing;
\* a search over a predecessor map with a cycle is followed by the return
\* of a witness, walked from that map, and any other search by the next
\* pass; no pass starts from a predecessor map that contains a cycle, so
\* the witness is returned after the first pass that leaves one.
C25_PassThenSearch ==
    /\ []((pc = "relax" \/ (pc = "done" /\ result.tag = "None")) => ~HasPredCycle)
    /\ [][/\ pc = "call" => pc' = "relax"
          /\ pc = "relax" =>
               /\ pc' \in {"find", "done"}
               /\ (pc' = "find") <=> (dist' # dist)
               /\ pc' = "done" => result'.tag = "None"
          /\ pc = "find" =>
               /\ pred' = pred /\ dist' = dist
               /\ IF HasPredCycle
                  THEN /\ pc' = "done"
                       /\ result'.tag = "Some"
                       /\ \E v \in Nodes :
                              /\ OnPredCycle(v)
                              /\ {result'.cycle[i] : i \in DOMAIN result'.cycle}
                                     = {pred[x][2] : x \in PredChain(v)}
                  ELSE pc' = "relax" /\ result' = result
          /\ pc = "done" => pc' = "done"
         ]_vars

\* A search found no cycle in a predecessor map a pass had filled, and
\* the next pass is about to assign dist[v] through an edge that leaves a
\* node whose predecessor chain passes v.
C25_Witness ==
    /\ pc = "relax"
    /\ pred # <<>>
    /\ \E v \in Nodes : LastAssigning(v) # 0 /\ v \in PredChain(edges[LastAssigning(v)].src)

\* C26: under the standard policy every cycle that howard returns inside
\* run has zero_cancel strictly smaller than the current ratio, so run
\* never takes the break of a cycle that is not better: it leaves its loop
\* only after a howard call that found no cycle.
C26_ReturnedCycleIsBetter ==
    /\ []((run_pc = "howard" /\ pc = "done" /\ result.tag = "Some") =>
            Gt(ratio, zero_cancel(result.cycle)))
    /\ [][(run_pc = "howard" /\ run_pc' = "return") =>
            (pc = "done" /\ result.tag = "None")]_vars

\* Inside run, howard has returned a second cycle, after run adopted a
\* first one, and its mean is not an integer.
C26_Witness ==
    /\ run_pc = "howard" /\ pc = "done" /\ result.tag = "Some"
    /\ iters >= 2
    /\ run_cycle # <<>>
    /\ zero_cancel(result.cycle)[2] # 1

\* C27: when run returns under the standard policy, whatever dist held on
\* entry, dist is a feasible potential for the returned ratio: for every
\* edge u -> v of the graph, dist[v] <= dist[u] + weight(u -> v) - ratio.
C27_DistIsFeasiblePotential ==
    run_pc = "return" =>
        \A i \in DOMAIN edges :
            ~Gt(dist[edges[i].dst], Add(dist[edges[i].src], Sub(weight(i), ratio)))

\* A second run on the same solver has adopted a cycle and returned with
\* a dist that is not all zero, under which one edge is tight and another
\* has slack.
C27_Witness ==
    /\ run_pc = "return"
    /\ first # NoCall
    /\ run_cycle # <<>>
    /\ \E v \in Nodes : dist[v] # Zero
    /\ \E i, j \in DOMAIN edges :
           /\ dist[edges[i].dst] = Add(dist[edges[i].src], Sub(weight(i), ratio))
           /\ Gt(Add(dist[edges[j].src], Sub(weight(j), ratio)), dist[edges[j].dst])

====
